---------------------------- MODULE Spec2Model ----------------------------
(***************************************************************************)
(* A model of pyfacebook/ratelimit.py: the interval policy get_interval,   *)
(* the app/business tracker RateLimit and the entity tracker               *)
(* InstagramRateLimit.                                                     *)
(*                                                                         *)
(* Python values are tagged records [k, v]: None, int, list (a sequence)   *)
(* and dict (a sequence of <<key, value>> pairs in insertion order).  A    *)
(* header value is a text: the empty string, a text json.loads rejects, or *)
(* a JSON document.  A call's outcome is "ok" or the name of the exception *)
(* that leaves the method.                                                 *)
(***************************************************************************)
EXTENDS Integers, Sequences, FiniteSets, TLC

VARIABLES
    usage_count,   \* get_interval: the argument of the call
    interval,      \* get_interval: the value returned, None before the call
    clock,         \* int(time.time())
    ig,            \* InstagramRateLimit: the instance's attributes
    ig_call,       \* InstagramRateLimit: the last __init__ or set_limit call
    ig_get,        \* InstagramRateLimit: the last get_sleep_interval() since ig_call
    ig_seen,       \* InstagramRateLimit: the get_sleep_interval() before ig_get that
                   \* found no reset pending (kept by SpecEntityPair alone)
    rl,            \* RateLimit: the instance's __dict__
    rl_call,       \* RateLimit: the last __init__ or set_limit call
    rl_get,        \* RateLimit: the last get_sleep_interval() since rl_call
    th             \* InstagramRateLimit shared by two threads: where each thread
                   \* stands inside set_limit and get_sleep_interval

vars == <<usage_count, interval, clock, ig, ig_call, ig_get, ig_seen, rl, rl_call, rl_get, th>>

-----------------------------------------------------------------------------
(* Bounds *)

\* get_interval is called with every integer of -NegUsage .. MaxUsage
NegUsage == 3
MaxUsage == 105
\* the clock runs over 0 .. MaxTime
MaxTime == 2
\* estimated_time_to_regain_access runs over -1 .. MaxRegain
MaxRegain == 2
\* set_limit calls of the thread that updates a shared entity tracker
MaxCalls == 2

-----------------------------------------------------------------------------
(* Python values *)

None == [k |-> "None", v |-> 0]
PyInt(n) == [k |-> "int", v |-> n]
PyList(s) == [k |-> "list", v |-> s]
PyDict(s) == [k |-> "dict", v |-> s]

\* the keys of a dict, and the value at a key it holds
Keys(d) == {d.v[i][1] : i \in 1..Len(d.v)}
Item(d, key) == d.v[CHOOSE i \in 1..Len(d.v) : d.v[i][1] = key][2]

Max2(a, b) == IF a >= b THEN a ELSE b
\* max(a, b, c) of lines 84-88 and 136-140
Max3(a, b, c) == Max2(Max2(a, b), c)

-----------------------------------------------------------------------------
(* The interval policy *)

\* get_interval as it would be with `>=` for `>` in the last branch
get_interval_ge100(u) ==
    IF u < 20 THEN 1
    ELSE IF u < 50 THEN 3
    ELSE IF u < 80 THEN 5
    ELSE IF u < 90 THEN 60 * 5
    ELSE IF u < 100 THEN 60 * 10
    ELSE 60 * 20

get_interval(u) ==
    IF u < 20 THEN 1
    ELSE IF u < 50 THEN 3
    ELSE IF u < 80 THEN 5
    ELSE IF u < 90 THEN 60 * 5
    ELSE IF u < 100 THEN 60 * 10
    ELSE IF u > 100 THEN 60 * 20
    ELSE 1

-----------------------------------------------------------------------------
(* Exceptions, header texts and json.loads *)

Return(x) == [exc |-> "", value |-> x]
Raise(e) == [exc |-> e, value |-> None]

APP == "x-app-usage"
BUC == "x-business-use-case-usage"

\* what headers.get(key) gives: None, or the header's text
NoText == [text |-> "None", doc |-> None]
EmptyText == [text |-> "empty", doc |-> None]
Garbage == [text |-> "garbage", doc |-> None]
Json(d) == [text |-> "json", doc |-> d]

HeadersGet(headers, key) == IF key \in DOMAIN headers THEN headers[key] ELSE NoText

\* `if usage:` on None or a str
Truthy(x) == x.text \notin {"None", "empty"}

json_loads(x) == IF x.text = "json" THEN Return(x.doc) ELSE Raise("JSONDecodeError")

\* x[0]
Subscript0(x) ==
    CASE x.k = "list" -> IF Len(x.v) = 0 THEN Raise("IndexError") ELSE Return(x.v[1])
      [] x.k = "dict" -> Raise("KeyError")
      [] OTHER -> Raise("TypeError")

\* x[key], key a str
GetItem(x, key) ==
    CASE x.k = "dict" -> IF key \in Keys(x) THEN Return(Item(x, key)) ELSE Raise("KeyError")
      [] OTHER -> Raise("TypeError")

\* a.get(key, default)
DictGet(a, key, default) ==
    IF a.k # "dict" THEN Raise("AttributeError")
    ELSE IF key \in Keys(a) THEN Return(Item(a, key)) ELSE Return(default)

\* now + x, now an int
Add(now, x) == IF x.k = "int" THEN Return(now + x.v) ELSE Raise("TypeError")

-----------------------------------------------------------------------------
(* The entity tracker, InstagramRateLimit *)

\* __init__ with no keyword arguments
InstagramRateLimitInit ==
    [type |-> "instagram", call_count |-> 0, total_cputime |-> 0, total_time |-> 0,
     reset_at |-> 0]

default_usage ==
    PyDict(<< <<"call_count", PyInt(0)>>, <<"total_cputime", PyInt(0)>>,
              <<"total_time", PyInt(0)>>,
              <<"estimated_time_to_regain_access", PyInt(0)>> >>)

\* IGSelect as it would be with usage_data[id] for usage_data.get(id, [default_usage])
IGSelectNoDefault(x, id) ==
    LET usage_data == json_loads(x)
    IN  IF usage_data.exc # "" THEN usage_data
        ELSE LET got == GetItem(usage_data.value, id)
             IN  IF got.exc # "" THEN got ELSE Subscript0(got.value)

\* the try block: json.loads, then usage_data.get(id, [default_usage])[0]
IGSelect(x, id) ==
    LET usage_data == json_loads(x)
    IN  IF usage_data.exc # "" THEN usage_data
        ELSE LET got == DictGet(usage_data.value, id, PyList(<<default_usage>>))
             IN  IF got.exc # "" THEN got ELSE Subscript0(got.value)

\* IGStore as it would be if reset_at were merged with the earlier one by max
IGStoreMerged(self, data, now) ==
    LET cc == GetItem(data, "call_count")
        cpu == GetItem(data, "total_cputime")
        tt == GetItem(data, "total_time")
        eta == GetItem(data, "estimated_time_to_regain_access")
    IN  IF cc.exc # "" \/ cpu.exc # "" \/ tt.exc # "" \/ eta.exc # "" \/ eta.value.k # "int"
        THEN [self |-> self, outcome |-> "KeyError"]
        ELSE [self |-> [self EXCEPT !.call_count = cc.value.v,
                                    !.total_cputime = cpu.value.v,
                                    !.total_time = tt.value.v,
                                    !.reset_at = Max2(self.reset_at, now + eta.value.v)],
              outcome |-> "ok"]

\* the four assignments, one after another: an exception leaves the earlier ones done
IGStore(self, data, now) ==
    LET cc == GetItem(data, "call_count")
        s1 == [self EXCEPT !.call_count = cc.value.v]
        cpu == GetItem(data, "total_cputime")
        s2 == [s1 EXCEPT !.total_cputime = cpu.value.v]
        tt == GetItem(data, "total_time")
        s3 == [s2 EXCEPT !.total_time = tt.value.v]
        eta == GetItem(data, "estimated_time_to_regain_access")
        sum == Add(now, eta.value)
    IN  IF cc.exc # "" THEN [self |-> self, outcome |-> cc.exc]
        ELSE IF cpu.exc # "" THEN [self |-> s1, outcome |-> cpu.exc]
        ELSE IF tt.exc # "" THEN [self |-> s2, outcome |-> tt.exc]
        ELSE IF eta.exc # "" THEN [self |-> s3, outcome |-> eta.exc]
        ELSE IF sum.exc # "" THEN [self |-> s3, outcome |-> sum.exc]
        ELSE [self |-> [s3 EXCEPT !.reset_at = sum.value], outcome |-> "ok"]

\* IGSetLimitResult as it would be if a missing header stored default_usage
IGSetLimitResultDefault(self, headers, id, now) ==
    LET x == HeadersGet(headers, BUC)
    IN  IF ~Truthy(x) THEN IGStore(self, default_usage, now)
        ELSE LET sel == IGSelect(x, id)
             IN  IF sel.exc \in {"TypeError", "JSONDecodeError"}
                 THEN IGStore(self, default_usage, now)
                 ELSE IF sel.exc # "" THEN [self |-> self, outcome |-> sel.exc]
                 ELSE IGStore(self, sel.value, now)

\* set_limit(headers, instagram_business_id) at time now: the instance afterwards and
\* "ok" or the exception raised
IGSetLimitResult(self, headers, id, now) ==
    LET x == HeadersGet(headers, BUC)
    IN  IF ~Truthy(x) THEN [self |-> self, outcome |-> "ok"]
        ELSE LET sel == IGSelect(x, id)
             IN  IF sel.exc \in {"TypeError", "JSONDecodeError"}
                 THEN IGStore(self, default_usage, now)
                 ELSE IF sel.exc # "" THEN [self |-> self, outcome |-> sel.exc]
                 ELSE IGStore(self, sel.value, now)

\* IGSleepInterval as it would be with `>=` for `>`
IGSleepIntervalGe(self, now) ==
    IF self.reset_at >= now
    THEN self.reset_at - now
    ELSE get_interval(Max3(self.call_count, self.total_time, self.total_cputime))

\* get_sleep_interval() at time now
IGSleepInterval(self, now) ==
    IF self.reset_at > now
    THEN self.reset_at - now
    ELSE get_interval(Max3(self.call_count, self.total_time, self.total_cputime))

-----------------------------------------------------------------------------
(* The headers the entity tracker is given *)

EntityIds == {"123", "456"}

UsageObj(cc, cpu, tt, eta) ==
    PyDict(<< <<"call_count", PyInt(cc)>>, <<"total_cputime", PyInt(cpu)>>,
              <<"total_time", PyInt(tt)>>,
              <<"estimated_time_to_regain_access", PyInt(eta)>> >>)

\* the usage triples of well-formed headers: each field is the largest of some triple
UsageTriples == {<<15, 0, 0>>, <<10, 10, 95>>, <<0, 100, 20>>, <<101, 0, 0>>}

\* the usage objects of well-formed headers
UsageObjs == {UsageObj(u[1], u[2], u[3], eta) : u \in UsageTriples, eta \in -1..MaxRegain}

OtherObj == UsageObj(50, 50, 50, 1)

\* OtherObj without one key
Without(key) == PyDict(SelectSeq(OtherObj.v, LAMBDA p : p[1] # key))

\* an id mapped to a one-element array; "123" mapped to a two-element array beside "456"
WellFormedDocs ==
    {PyDict(<< <<"123", PyList(<<o>>)>> >>) : o \in UsageObjs}
    \cup {PyDict(<< <<"456", PyList(<<UsageObj(10, 10, 95, MaxRegain)>>)>> >>)}
    \cup {PyDict(<< <<"123", PyList(<<o, OtherObj>>)>>, <<"456", PyList(<<OtherObj>>)>> >>) :
            o \in {UsageObj(15, 0, 0, 0), UsageObj(10, 10, 95, MaxRegain)}}

\* JSON of another shape
MalformedDocs ==
    {None, PyList(<<>>), PyDict(<<>>),
     PyDict(<< <<"123", PyList(<<>>)>> >>),
     PyDict(<< <<"123", None>> >>),
     PyDict(<< <<"123", OtherObj>> >>),
     PyDict(<< <<"123", PyList(<<PyInt(5)>>)>> >>),
     PyDict(<< <<"123", PyList(<<PyDict(OtherObj.v \o << <<"foo", PyInt(1)>> >>)>>)>> >>),
     PyDict(<< <<"123", PyList(<<PyDict(Without("estimated_time_to_regain_access").v
                                         \o << <<"estimated_time_to_regain_access", None>> >>)>>)>> >>)}
    \cup {PyDict(<< <<"123", PyList(<<Without(key)>>)>> >>) : key \in Keys(OtherObj)}

BucTexts == {EmptyText, Garbage} \cup {Json(d) : d \in WellFormedDocs \cup MalformedDocs}

NoHeaders == [key \in {} |-> NoText]

IGHeaders ==
    {NoHeaders, [key \in {APP} |-> Json(UsageObj(95, 0, 0, 0))]}
    \cup {[key \in {BUC} |-> x] : x \in BucTexts}

-----------------------------------------------------------------------------
(* The entity tracker's operations *)

NoGet == [called |-> FALSE, t |-> 0, ret |-> 0, usage |-> 0, pending |-> FALSE]
NotSeen == [seen |-> FALSE, usage |-> 0, ret |-> 0]

\* the last get_sleep_interval() that found no reset pending
Seen == IF ig_get.called /\ ~ig_get.pending
        THEN [seen |-> TRUE, usage |-> ig_get.usage, ret |-> ig_get.ret]
        ELSE ig_seen

IGConstruct ==
    /\ ig = InstagramRateLimitInit
    /\ ig_call = [op |-> "__init__", headers |-> NoHeaders, id |-> "", t |-> 0,
                  outcome |-> "ok"]
    /\ ig_get = NoGet
    /\ ig_seen = NotSeen

\* set_limit with any headers of hs and any id
IGSetLimitOn(hs, seen) ==
    \E headers \in hs, id \in EntityIds :
        LET r == IGSetLimitResult(ig, headers, id, clock)
        IN  /\ ig' = r.self
            /\ ig_call' = [op |-> "set_limit", headers |-> headers, id |-> id,
                           t |-> clock, outcome |-> r.outcome]
            /\ ig_get' = NoGet
            /\ ig_seen' = seen
            /\ UNCHANGED <<usage_count, interval, clock, rl, rl_call, rl_get, th>>

IGGetSleepIntervalOn(seen) ==
    /\ ig_get' = [called |-> TRUE, t |-> clock, ret |-> IGSleepInterval(ig, clock),
                  usage |-> Max3(ig.call_count, ig.total_time, ig.total_cputime),
                  pending |-> ig.reset_at > clock]
    /\ ig_seen' = seen
    /\ UNCHANGED <<usage_count, interval, clock, ig, ig_call, rl, rl_call, rl_get, th>>

IGSetLimit == IGSetLimitOn(IGHeaders, ig_seen)

IGGetSleepInterval == IGGetSleepIntervalOn(ig_seen)

\* the same operations on well-formed headers, with the earlier result kept in ig_seen
IGSetLimitWellFormed == IGSetLimitOn({[key \in {BUC} |-> Json(d)] : d \in WellFormedDocs}, Seen)

IGGetSleepIntervalAgain == IGGetSleepIntervalOn(Seen)

\* time passes, up to MaxTime
Tick ==
    /\ clock < MaxTime
    /\ clock' = clock + 1
    /\ UNCHANGED <<usage_count, interval, ig, ig_call, ig_get, ig_seen, rl, rl_call, rl_get, th>>

-----------------------------------------------------------------------------
(* The usage record, RateLimitData *)

RateLimitDataFields ==
    {"call_count", "total_cputime", "total_time", "type", "estimated_time_to_regain_access"}

\* the attrib defaults
RateLimitDataDefault(field) ==
    IF field \in {"call_count", "total_cputime", "total_time"} THEN PyInt(0) ELSE None

\* RateLimitData(**x): x is a mapping whose keys are all fields of the class, or TypeError
RateLimitData(x) ==
    IF x.k # "dict" THEN Raise("TypeError")
    ELSE IF ~(Keys(x) \subseteq RateLimitDataFields) THEN Raise("TypeError")
    ELSE Return([field \in RateLimitDataFields |->
                    IF field \in Keys(x) THEN Item(x, field) ELSE RateLimitDataDefault(field)])

-----------------------------------------------------------------------------
(* The app/business tracker, RateLimit *)

\* __init__: the instance's __dict__
RateLimitInit == [resources |-> PyDict(<<>>), _type |-> "app"]

\* parse_headers as it would be if the except clause returned an empty object
parse_headers_empty(headers, key) ==
    LET usage == HeadersGet(headers, key)
    IN  IF Truthy(usage)
        THEN LET data == json_loads(usage)
             IN  IF data.exc = "" THEN data.value ELSE PyDict(<<>>)
        ELSE None

\* parse_headers(headers, key): the parsed value, None when the header is missing, empty
\* or rejected by json.loads
parse_headers(headers, key) ==
    LET usage == HeadersGet(headers, key)
    IN  IF Truthy(usage)
        THEN LET data == json_loads(usage)
             IN  IF data.exc = "" THEN data.value ELSE None
        ELSE None

\* resources[key] = value
SetItem(resources, key, value) ==
    IF resources.k # "dict" THEN Raise("TypeError")
    ELSE IF key \in Keys(resources)
    THEN Return(PyDict([i \in 1..Len(resources.v) |->
                          IF resources.v[i][1] = key THEN <<key, value>> ELSE resources.v[i]]))
    ELSE Return(PyDict(Append(resources.v, <<key, value>>)))

\* [RateLimitData(**item) for item in items]: iterating a dict gives its keys, which
\* are no mappings
RECURSIVE Comprehension(_, _)
Comprehension(items, i) ==
    IF items.k = "dict"
    THEN IF Len(items.v) = 0 THEN Return(<<>>) ELSE Raise("TypeError")
    ELSE IF items.k # "list" THEN Raise("TypeError")
    ELSE IF i > Len(items.v) THEN Return(<<>>)
    ELSE LET head == RateLimitData(items.v[i])
             tail == Comprehension(items, i + 1)
         IN  IF head.exc # "" THEN head
             ELSE IF tail.exc # "" THEN tail
             ELSE Return(<<head.value>> \o tail.value)

\* BusinessLoop as it would be if each id's records were stored under the id, beside 'app'
RECURSIVE BusinessLoopMerged(_, _, _)
BusinessLoopMerged(self, pairs, i) ==
    IF i > Len(pairs) THEN [self |-> self, outcome |-> "ok"]
    ELSE LET made == Comprehension(pairs[i][2], 1)
             set == SetItem(self.resources, pairs[i][1], PyList(made.value))
         IN  IF made.exc # "" THEN [self |-> self, outcome |-> made.exc]
             ELSE IF set.exc # "" THEN [self |-> self, outcome |-> set.exc]
             ELSE BusinessLoopMerged([self EXCEPT !.resources = set.value], pairs, i + 1)

\* for business_id, items in business_usage.items(): resources = [...]
RECURSIVE BusinessLoop(_, _, _)
BusinessLoop(self, pairs, i) ==
    IF i > Len(pairs) THEN [self |-> self, outcome |-> "ok"]
    ELSE LET made == Comprehension(pairs[i][2], 1)
         IN  IF made.exc # "" THEN [self |-> self, outcome |-> made.exc]
             ELSE BusinessLoop([self EXCEPT !.resources = PyList(made.value)], pairs, i + 1)

\* RLSetApp as it would be if a field the header lacks kept its earlier value
RLSetAppMerged(self, headers) ==
    LET app_usage == parse_headers(headers, APP)
    IN  IF app_usage = None THEN [self |-> self, outcome |-> "ok"]
        ELSE LET record == RateLimitData(app_usage)
                 kept == IF self.resources.k = "dict" /\ "app" \in Keys(self.resources)
                         THEN [field \in RateLimitDataFields |->
                                 IF field \in Keys(app_usage) THEN record.value[field]
                                 ELSE Item(self.resources, "app")[field]]
                         ELSE record.value
                 set == SetItem(self.resources, "app", kept)
             IN  IF record.exc # "" THEN [self |-> self, outcome |-> record.exc]
                 ELSE IF set.exc # "" THEN [self |-> self, outcome |-> set.exc]
                 ELSE [self |-> [self EXCEPT !.resources = set.value], outcome |-> "ok"]

\* the x-app-usage step: resources["app"] = RateLimitData(**app_usage)
RLSetApp(self, headers) ==
    LET app_usage == parse_headers(headers, APP)
    IN  IF app_usage = None THEN [self |-> self, outcome |-> "ok"]
        ELSE LET record == RateLimitData(app_usage)
                 set == SetItem(self.resources, "app", record.value)
             IN  IF record.exc # "" THEN [self |-> self, outcome |-> record.exc]
                 ELSE IF set.exc # "" THEN [self |-> self, outcome |-> set.exc]
                 ELSE [self |-> [self EXCEPT !.resources = set.value], outcome |-> "ok"]

\* the x-business-use-case-usage step: resources replaced by each id's records in turn
RLSetBusiness(self, headers) ==
    LET business_usage == parse_headers(headers, BUC)
    IN  IF business_usage = None THEN [self |-> self, outcome |-> "ok"]
        ELSE IF business_usage.k # "dict" THEN [self |-> self, outcome |-> "AttributeError"]
        ELSE BusinessLoop(self, business_usage.v, 1)

\* set_limit(headers): the instance's __dict__ afterwards and "ok" or the exception raised
RLSetLimitResult(self, headers) ==
    LET app == RLSetApp(self, headers)
    IN  IF app.outcome # "ok" THEN app ELSE RLSetBusiness(app.self, headers)

\* self.<name>: the class defines no call_count, total_cputime or total_time and no
\* __getattr__, so the name is looked up in the instance's __dict__ alone
GetAttr(self, name) ==
    IF name \in DOMAIN self THEN Return(self[name]) ELSE Raise("AttributeError")

\* get_sleep_interval(): the arguments of max() are evaluated in order
RLSleepInterval(self) ==
    LET cc == GetAttr(self, "call_count")
        tt == GetAttr(self, "total_time")
        cpu == GetAttr(self, "total_cputime")
    IN  IF cc.exc # "" THEN cc
        ELSE IF tt.exc # "" THEN tt
        ELSE IF cpu.exc # "" THEN cpu
        ELSE Return(PyInt(get_interval(Max3(cc.value.v, tt.value.v, cpu.value.v))))

-----------------------------------------------------------------------------
(* The headers the app/business tracker is given *)

AppObj(cc, cpu, tt) ==
    PyDict(<< <<"call_count", PyInt(cc)>>, <<"total_cputime", PyInt(cpu)>>,
              <<"total_time", PyInt(tt)>> >>)

AppObjs == {AppObj(15, 0, 0), AppObj(95, 10, 10), AppObj(100, 0, 20), AppObj(0, 101, 0)}

\* objects that lack fields
PartialObjs ==
    {PyDict(<<>>), PyDict(<< <<"call_count", PyInt(15)>> >>),
     PyDict(<< <<"call_count", PyInt(15)>>, <<"total_cputime", PyInt(10)>> >>),
     PyDict(<< <<"total_time", PyInt(95)>> >>)}

UnknownFieldObj == PyDict(AppObj(15, 0, 0).v \o << <<"foo", PyInt(1)>> >>)

AppTexts ==
    {EmptyText, Garbage, Json(None), Json(PyInt(5)), Json(PyList(<<>>)), Json(UnknownFieldObj)}
    \cup {Json(o) : o \in AppObjs \cup PartialObjs}

BusinessObjs == {UsageObj(15, 0, 0, 0), UsageObj(95, 101, 20, MaxRegain)}

\* objects of business ids, each with an array of usage objects
WellFormedBusinessDocs ==
    {PyDict(<< <<"123", PyList(<<o>>)>> >>) : o \in BusinessObjs}
    \cup {PyDict(<< <<"123", PyList(<<o, OtherObj>>)>> >>) : o \in BusinessObjs}
    \cup {PyDict(<< <<"123", PyList(<<o>>)>>, <<"456", PyList(<<OtherObj>>)>> >>) :
            o \in BusinessObjs}

BusinessDocs ==
    {None, PyInt(5), PyList(<<>>), PyDict(<<>>),
     PyDict(<< <<"123", PyList(<<>>)>> >>),
     PyDict(<< <<"123", None>> >>),
     PyDict(<< <<"123", OtherObj>> >>),
     PyDict(<< <<"123", PyDict(<<>>)>> >>),
     PyDict(<< <<"123", PyList(<<PyInt(5)>>)>> >>),
     PyDict(<< <<"123", PyList(<<UnknownFieldObj>>)>> >>),
     PyDict(<< <<"123", PyList(<<OtherObj>>)>>, <<"456", PyList(<<UnknownFieldObj>>)>> >>),
     PyDict(<< <<"123", PyList(<<OtherObj>>)>>, <<"456", PyList(<<>>)>> >>)}
    \cup WellFormedBusinessDocs

BusinessTexts == {EmptyText, Garbage} \cup {Json(d) : d \in BusinessDocs}

RLHeaders ==
    {NoHeaders}
    \cup {[key \in {APP} |-> x] : x \in AppTexts}
    \cup {[key \in {BUC} |-> x] : x \in BusinessTexts}
    \cup {[key \in {APP, BUC} |-> IF key = APP THEN x ELSE y] :
            x \in AppTexts, y \in BusinessTexts}

\* header mappings of the documented shape only
RLHeadersWellFormed ==
    {NoHeaders}
    \cup {[key \in {APP} |-> Json(o)] : o \in AppObjs}
    \cup {[key \in {BUC} |-> Json(d)] : d \in WellFormedBusinessDocs}
    \cup {[key \in {APP, BUC} |-> IF key = APP THEN Json(o) ELSE Json(d)] :
            o \in AppObjs, d \in WellFormedBusinessDocs}

-----------------------------------------------------------------------------
(* The app/business tracker's operations *)

RLNoGet == [called |-> FALSE, outcome |-> "ok", ret |-> None]

RLConstruct ==
    /\ rl = RateLimitInit
    /\ rl_call = [op |-> "__init__", headers |-> NoHeaders, outcome |-> "ok"]
    /\ rl_get = RLNoGet

RLSetLimitOn(hs) ==
    \E headers \in hs :
        LET r == RLSetLimitResult(rl, headers)
        IN  /\ rl' = r.self
            /\ rl_call' = [op |-> "set_limit", headers |-> headers, outcome |-> r.outcome]
            /\ rl_get' = RLNoGet
            /\ UNCHANGED <<usage_count, interval, clock, ig, ig_call, ig_get, ig_seen, th>>

RLSetLimit == RLSetLimitOn(RLHeaders)

\* the same operation on well-formed headers
RLSetLimitWellFormed == RLSetLimitOn(RLHeadersWellFormed)

RLGetSleepInterval ==
    LET r == RLSleepInterval(rl)
    IN  /\ rl_get' = [called |-> TRUE, outcome |-> IF r.exc = "" THEN "ok" ELSE r.exc,
                      ret |-> r.value]
        /\ UNCHANGED <<usage_count, interval, clock, ig, ig_call, ig_get, ig_seen, rl, rl_call, th>>

-----------------------------------------------------------------------------
(* The interval policy's operation *)

UsageCounts == (0 - NegUsage)..MaxUsage

CallGetInterval ==
    /\ interval = None
    /\ interval' = PyInt(get_interval(usage_count))
    /\ UNCHANGED <<usage_count, clock, ig, ig_call, ig_get, ig_seen, rl, rl_call, rl_get, th>>

-----------------------------------------------------------------------------
(* Two threads on one entity tracker, statement by statement: one calls set_limit,
   the other get_sleep_interval *)

FieldNames == {"call_count", "total_cputime", "total_time", "reset_at"}

\* no attribute read yet
Unread == 0 - 1

\* the observation each attribute read by get_sleep_interval was written by: reset_at
\* is read by the test and again by the subtraction
NothingRead ==
    [test |-> Unread, reset_at |-> Unread, call_count |-> Unread, total_time |-> Unread,
     total_cputime |-> Unread]

WriterIdle == [pc |-> "idle", data |-> None, now |-> 0]
ReaderIdle == [pc |-> "idle", now |-> 0, acc |-> 0, ret |-> 0, seen |-> NothingRead]

\* no call running; serialized: the callers run one call at a time; calls: the set_limit
\* calls begun; obs: the call that wrote each attribute, 0 for __init__
ThIdle ==
    [serialized |-> TRUE, calls |-> 0, obs |-> [f \in FieldNames |-> 0],
     w |-> WriterIdle, r |-> ReaderIdle]

\* WriterNext as it would be if set_limit did not assign total_time
WriterNextSkip(pc) ==
    CASE pc = "call_count" -> "total_cputime"
      [] pc = "total_cputime" -> "now"
      [] pc = "total_time" -> "now"
      [] pc = "now" -> "reset_at"
      [] OTHER -> "idle"

\* the statement of set_limit after the one at pc
WriterNext(pc) ==
    CASE pc = "call_count" -> "total_cputime"
      [] pc = "total_cputime" -> "total_time"
      [] pc = "total_time" -> "now"
      [] pc = "now" -> "reset_at"
      [] OTHER -> "idle"

\* the argument of max() evaluated after the one at pc
ReaderNext(pc) ==
    CASE pc = "call_count" -> "total_time"
      [] pc = "total_time" -> "total_cputime"
      [] OTHER -> "returned"

Running(pc) == pc \notin {"idle", "returned"}

ThreadObjs == {UsageObj(15, 0, 0, 0), UsageObj(95, 0, 0, MaxRegain)}

ThreadHeaders ==
    {NoHeaders, [key \in {BUC} |-> Garbage]}
    \cup {[key \in {BUC} |-> Json(PyDict(<< <<"123", PyList(<<o>>)>> >>))] : o \in ThreadObjs}

\* set_limit up to the first assignment: the header is looked up and data selected
ThSetLimitBegin ==
    /\ th.w.pc = "idle"
    /\ th.calls < MaxCalls
    /\ th.serialized => ~Running(th.r.pc)
    /\ \E headers \in ThreadHeaders, id \in {"123"} :
          LET x == HeadersGet(headers, BUC)
              sel == IGSelect(x, id)
              caught == sel.exc \in {"TypeError", "JSONDecodeError"}
              data == IF caught THEN default_usage ELSE sel.value
          IN  th' = [th EXCEPT !.calls = @ + 1,
                               !.w = IF Truthy(x) /\ (caught \/ sel.exc = "")
                                     THEN [pc |-> "call_count", data |-> data, now |-> 0]
                                     ELSE WriterIdle]
    /\ UNCHANGED <<usage_count, interval, clock, ig, ig_call, ig_get, ig_seen, rl, rl_call, rl_get>>

\* self.<field> = data['<field>'] for call_count, total_cputime, total_time
ThSetLimitWrite ==
    /\ th.w.pc \in {"call_count", "total_cputime", "total_time"}
    /\ LET v == GetItem(th.w.data, th.w.pc)
       IN  IF v.exc # ""
           THEN /\ ig' = ig
                /\ th' = [th EXCEPT !.w = WriterIdle]
           ELSE /\ ig' = [ig EXCEPT ![th.w.pc] = v.value.v]
                /\ th' = [th EXCEPT !.obs[th.w.pc] = th.calls, !.w.pc = WriterNext(th.w.pc)]
    /\ UNCHANGED <<usage_count, interval, clock, ig_call, ig_get, ig_seen, rl, rl_call, rl_get>>

\* now = int(time.time())
ThSetLimitNow ==
    /\ th.w.pc = "now"
    /\ th' = [th EXCEPT !.w.now = clock, !.w.pc = WriterNext("now")]
    /\ UNCHANGED <<usage_count, interval, clock, ig, ig_call, ig_get, ig_seen, rl, rl_call, rl_get>>

\* self.reset_at = now + data['estimated_time_to_regain_access']
ThSetLimitResetAt ==
    /\ th.w.pc = "reset_at"
    /\ LET eta == GetItem(th.w.data, "estimated_time_to_regain_access")
           sum == Add(th.w.now, eta.value)
       IN  IF eta.exc # "" \/ sum.exc # ""
           THEN /\ ig' = ig
                /\ th' = [th EXCEPT !.w = WriterIdle]
           ELSE /\ ig' = [ig EXCEPT !.reset_at = sum.value]
                /\ th' = [th EXCEPT !.obs.reset_at = th.calls, !.w = WriterIdle]
    /\ UNCHANGED <<usage_count, interval, clock, ig_call, ig_get, ig_seen, rl, rl_call, rl_get>>

\* get_sleep_interval: now = int(time.time())
ThGetBegin ==
    /\ ~Running(th.r.pc)
    /\ th.serialized => th.w.pc = "idle"
    /\ th' = [th EXCEPT !.r = [ReaderIdle EXCEPT !.pc = "test", !.now = clock]]
    /\ UNCHANGED <<usage_count, interval, clock, ig, ig_call, ig_get, ig_seen, rl, rl_call, rl_get>>

\* if self.reset_at > now
ThGetTest ==
    /\ th.r.pc = "test"
    /\ th' = [th EXCEPT !.r.seen.test = th.obs.reset_at,
                        !.r.pc = IF ig.reset_at > th.r.now THEN "sub" ELSE "call_count"]
    /\ UNCHANGED <<usage_count, interval, clock, ig, ig_call, ig_get, ig_seen, rl, rl_call, rl_get>>

\* need_sleep = self.reset_at - now; return need_sleep
ThGetSub ==
    /\ th.r.pc = "sub"
    /\ th' = [th EXCEPT !.r.seen.reset_at = th.obs.reset_at,
                        !.r.ret = ig.reset_at - th.r.now,
                        !.r.now = 0,
                        !.r.pc = "returned"]
    /\ UNCHANGED <<usage_count, interval, clock, ig, ig_call, ig_get, ig_seen, rl, rl_call, rl_get>>

\* max(self.call_count, self.total_time, self.total_cputime), one argument at a time,
\* and after the last one return get_interval(usage_count)
ThGetRead ==
    /\ th.r.pc \in {"call_count", "total_time", "total_cputime"}
    /\ LET acc == IF th.r.pc = "call_count" THEN ig[th.r.pc] ELSE Max2(th.r.acc, ig[th.r.pc])
           last == ReaderNext(th.r.pc) = "returned"
       IN  th' = [th EXCEPT !.r.seen[th.r.pc] = th.obs[th.r.pc],
                            !.r.acc = IF last THEN 0 ELSE acc,
                            !.r.ret = IF last THEN get_interval(acc) ELSE 0,
                            !.r.now = IF last THEN 0 ELSE @,
                            !.r.pc = ReaderNext(th.r.pc)]
    /\ UNCHANGED <<usage_count, interval, clock, ig, ig_call, ig_get, ig_seen, rl, rl_call, rl_get>>

-----------------------------------------------------------------------------
(* Specifications *)

\* get_interval on every argument of UsageCounts
InitInterval ==
    /\ usage_count \in UsageCounts
    /\ interval = None
    /\ clock = 0
    /\ IGConstruct
    /\ RLConstruct
    /\ th = ThIdle

SpecInterval == InitInterval /\ [][CallGetInterval]_vars

\* one tracker of each kind, constructed at time 0
Init ==
    /\ usage_count = 0
    /\ interval = None
    /\ clock = 0
    /\ IGConstruct
    /\ RLConstruct
    /\ th = ThIdle

\* the entity tracker's session
NextEntity == IGSetLimit \/ IGGetSleepInterval \/ Tick

SpecEntity == Init /\ [][NextEntity]_vars

\* the app/business tracker's session
NextApp == RLSetLimit \/ RLGetSleepInterval

SpecApp == Init /\ [][NextApp]_vars

\* the app/business tracker's session on well-formed headers
NextAppWellFormed == RLSetLimitWellFormed \/ RLGetSleepInterval

SpecAppWellFormed == Init /\ [][NextAppWellFormed]_vars

\* the entity tracker's session on well-formed headers, two results kept
NextEntityPair == IGSetLimitWellFormed \/ IGGetSleepIntervalAgain \/ Tick

SpecEntityPair == Init /\ [][NextEntityPair]_vars

\* the entity tracker shared by a set_limit thread and a get_sleep_interval thread,
\* serialized by the callers or not
InitThreads ==
    /\ usage_count = 0
    /\ interval = None
    /\ clock = 0
    /\ IGConstruct
    /\ RLConstruct
    /\ th \in {[ThIdle EXCEPT !.serialized = b] : b \in BOOLEAN}

NextThreads ==
    \/ ThSetLimitBegin \/ ThSetLimitWrite \/ ThSetLimitNow \/ ThSetLimitResetAt
    \/ ThGetBegin \/ ThGetTest \/ ThGetSub \/ ThGetRead
    \/ Tick

SpecThreads == InitThreads /\ [][NextThreads]_vars

\* both sessions interleaved; the two trackers share no state, so each is checked under
\* its own specification
Next == NextEntity \/ NextApp

Spec == Init /\ [][Next]_vars

-----------------------------------------------------------------------------
(* What the claims say of a header *)

UsageKeys == {"call_count", "total_cputime", "total_time", "estimated_time_to_regain_access"}

\* a usage object as the interface describes it: the four fields, each an integer
IsUsageObj(o) ==
    /\ o.k = "dict"
    /\ UsageKeys \subseteq Keys(o)
    /\ \A key \in UsageKeys : Item(o, key).k = "int"

\* the header's text is JSON
IsJson(headers, key) == key \in DOMAIN headers /\ headers[key].text = "json"

\* x-business-use-case-usage parses to an object that maps id to a non-empty array
MapsToArray(headers, id) ==
    /\ IsJson(headers, BUC)
    /\ headers[BUC].doc.k = "dict"
    /\ id \in Keys(headers[BUC].doc)
    /\ Item(headers[BUC].doc, id).k = "list"
    /\ Len(Item(headers[BUC].doc, id).v) > 0

\* the first element of that array
FirstOf(headers, id) == Item(headers[BUC].doc, id).v[1]

Field(o, key) == Item(o, key).v

UsageMax(o) ==
    Max3(Field(o, "call_count"), Field(o, "total_time"), Field(o, "total_cputime"))

-----------------------------------------------------------------------------
(* C1 *)

\* C1: get_interval(usage_count) is 1 below 20, 3 on 20..49, 5 on 50..79, 300 on
\* 80..89, 600 on 90..99, 1200 above 100, and 1 at exactly 100.
C1_IntervalTable ==
    interval # None =>
        /\ usage_count < 20 => interval = PyInt(1)
        /\ usage_count \in 20..49 => interval = PyInt(3)
        /\ usage_count \in 50..79 => interval = PyInt(5)
        /\ usage_count \in 80..89 => interval = PyInt(300)
        /\ usage_count \in 90..99 => interval = PyInt(600)
        /\ usage_count > 100 => interval = PyInt(1200)
        /\ usage_count = 100 => interval = PyInt(1)

\* get_interval(100) has returned 1
C1_Witness == usage_count = 100 /\ interval = PyInt(1)

-----------------------------------------------------------------------------
(* C2 *)

\* C2: the entity tracker's get_sleep_interval() at time now returns reset_at - now
\* when reset_at > now and get_interval(max(call_count, total_time, total_cputime))
\* otherwise; so after a set_limit at time t whose element has
\* estimated_time_to_regain_access E > 0 it returns E - (now - t) while now < t + E
\* and the tiered value from t + E on.
C2_SleepInterval ==
    ig_get.called =>
        /\ ig_get.ret =
              IF ig.reset_at > ig_get.t
              THEN ig.reset_at - ig_get.t
              ELSE get_interval(Max3(ig.call_count, ig.total_time, ig.total_cputime))
        /\ ( /\ ig_call.op = "set_limit"
             /\ MapsToArray(ig_call.headers, ig_call.id)
             /\ IsUsageObj(FirstOf(ig_call.headers, ig_call.id))
             /\ Field(FirstOf(ig_call.headers, ig_call.id), "estimated_time_to_regain_access") > 0 )
           => LET o == FirstOf(ig_call.headers, ig_call.id)
                  E == Field(o, "estimated_time_to_regain_access")
              IN  ig_get.ret =
                     IF ig_get.t < ig_call.t + E
                     THEN E - (ig_get.t - ig_call.t)
                     ELSE get_interval(UsageMax(o))

\* the spec's example in small: usage 95 with E = MaxRegain gives 600 once E seconds
\* have passed
C2_Witness ==
    /\ ig_call.op = "set_limit"
    /\ MapsToArray(ig_call.headers, ig_call.id)
    /\ FirstOf(ig_call.headers, ig_call.id) = UsageObj(10, 10, 95, MaxRegain)
    /\ ig_get.called
    /\ ig_get.t = ig_call.t + MaxRegain
    /\ ig_get.ret = 600

-----------------------------------------------------------------------------
(* C3 *)

\* C3: after the entity tracker's set_limit(headers, id) at time t with a header that
\* maps id to a non-empty array of usage objects, the three usage fields are those of
\* the first element and reset_at = t + its estimated_time_to_regain_access, whatever
\* the state was before: nothing of an earlier observation is kept.
C3_LastObservation ==
    ( /\ ig_call.op = "set_limit"
      /\ MapsToArray(ig_call.headers, ig_call.id)
      /\ IsUsageObj(FirstOf(ig_call.headers, ig_call.id)) )
    => LET o == FirstOf(ig_call.headers, ig_call.id)
       IN  /\ ig_call.outcome = "ok"
           /\ ig.call_count = Field(o, "call_count")
           /\ ig.total_cputime = Field(o, "total_cputime")
           /\ ig.total_time = Field(o, "total_time")
           /\ ig.reset_at = ig_call.t + Field(o, "estimated_time_to_regain_access")

\* a later call with a two-element array and a non-positive time to regain access
C3_Witness ==
    /\ ig_call.op = "set_limit"
    /\ ig_call.t > 0
    /\ MapsToArray(ig_call.headers, ig_call.id)
    /\ Len(Item(ig_call.headers[BUC].doc, ig_call.id).v) = 2
    /\ ig.call_count = 15
    /\ ig.reset_at = ig_call.t

-----------------------------------------------------------------------------
(* C4 *)

\* the x-app-usage header is a JSON object of call_count, total_cputime and total_time
IsAppObj(o) ==
    /\ o.k = "dict"
    /\ Keys(o) = {"call_count", "total_cputime", "total_time"}
    /\ \A key \in Keys(o) : Item(o, key).k = "int"

\* C4: after the app/business tracker's set_limit with only an x-app-usage object,
\* get_sleep_interval() returns get_interval(max(call_count, total_time,
\* total_cputime)) of that object.
C4_AppSleepInterval ==
    ( /\ rl_call.op = "set_limit"
      /\ DOMAIN rl_call.headers = {APP}
      /\ IsJson(rl_call.headers, APP)
      /\ IsAppObj(rl_call.headers[APP].doc)
      /\ rl_get.called )
    => /\ rl_get.outcome = "ok"
       /\ rl_get.ret = PyInt(get_interval(UsageMax(rl_call.headers[APP].doc)))

-----------------------------------------------------------------------------
(* C5 *)

\* the call carries no usage: neither header, or a non-JSON x-app-usage alone
CarriesNothing(headers) ==
    \/ DOMAIN headers = {}
    \/ DOMAIN headers = {APP} /\ headers[APP].text # "json"

\* C5: an app/business tracker that never stored usage data (fresh, or after calls
\* that carry no usage) answers get_sleep_interval() with the minimum interval 1 and
\* does not raise.
C5_FreshMinimum ==
    ( /\ rl.resources = PyDict(<<>>)
      /\ rl_call.op = "__init__" \/ CarriesNothing(rl_call.headers)
      /\ rl_get.called )
    => /\ rl_get.outcome = "ok"
       /\ rl_get.ret = PyInt(1)

-----------------------------------------------------------------------------
(* C6 *)

\* x-business-use-case-usage of the expected shape: an object whose values are
\* non-empty arrays of usage objects with the four fields and no other
ExpectedBusiness(x) ==
    /\ x.text = "json"
    /\ x.doc.k = "dict"
    /\ \A i \in 1..Len(x.doc.v) :
          LET items == x.doc.v[i][2]
          IN  /\ items.k = "list"
              /\ Len(items.v) > 0
              /\ \A j \in 1..Len(items.v) :
                    IsUsageObj(items.v[j]) /\ Keys(items.v[j]) = UsageKeys

ExpectedApp(x) == x.text = "json" /\ IsAppObj(x.doc)

\* the header is there and not of the expected shape
Malformed(headers) ==
    \/ BUC \in DOMAIN headers /\ ~ExpectedBusiness(headers[BUC])
    \/ APP \in DOMAIN headers /\ ~ExpectedApp(headers[APP])

\* C6: set_limit of either tracker returns normally whenever a usage header is
\* present but not of the expected JSON shape.
C6_NeverRaised ==
    /\ (ig_call.op = "set_limit" /\ BUC \in DOMAIN ig_call.headers
            /\ ~ExpectedBusiness(ig_call.headers[BUC]))
       => ig_call.outcome = "ok"
    /\ (rl_call.op = "set_limit" /\ Malformed(rl_call.headers))
       => rl_call.outcome = "ok"

-----------------------------------------------------------------------------
(* C7 *)

\* C7 as stated: after the entity tracker's set_limit at time t with headers that do
\* not contain x-business-use-case-usage, the usage fields are 0 and reset_at = t.
C7_ZeroDefault ==
    (ig_call.op = "set_limit" /\ BUC \notin DOMAIN ig_call.headers)
    => /\ ig.call_count = 0
       /\ ig.total_cputime = 0
       /\ ig.total_time = 0
       /\ ig.reset_at = ig_call.t

\* C7 as amended: the entity tracker's set_limit with headers that do not contain
\* x-business-use-case-usage returns normally and leaves call_count, total_cputime,
\* total_time and reset_at as they were before the call.
C7_Unchanged ==
    [][ (ig_call'.op = "set_limit" /\ BUC \notin DOMAIN ig_call'.headers)
        => (ig' = ig /\ ig_call'.outcome = "ok") ]_vars

\* usage and a pending reset of an earlier observation have survived such a call
C7_Witness ==
    /\ ig_call.op = "set_limit"
    /\ BUC \notin DOMAIN ig_call.headers
    /\ ig.call_count = 101
    /\ ig.reset_at > ig_call.t

-----------------------------------------------------------------------------
(* C8 *)

\* the header is there and is not valid JSON, or is a JSON object without the id
NotJsonOrNoId(headers, id) ==
    /\ BUC \in DOMAIN headers
    /\ \/ headers[BUC].text # "json"
       \/ headers[BUC].doc.k = "dict" /\ id \notin Keys(headers[BUC].doc)

ZeroAt(t) ==
    /\ ig.call_count = 0
    /\ ig.total_cputime = 0
    /\ ig.total_time = 0
    /\ ig.reset_at = t
    /\ ig_get.called => ig_get.ret = 1

\* C8 as stated: after the entity tracker's set_limit at time t with
\* x-business-use-case-usage present but not valid JSON, or a JSON object without the
\* entity id, the usage fields are 0, reset_at = t and the next get_sleep_interval()
\* returns 1.
C8_DefaultApplied ==
    (ig_call.op = "set_limit" /\ NotJsonOrNoId(ig_call.headers, ig_call.id))
    => ZeroAt(ig_call.t)

\* C8 as amended: the same, for a header value that is not the empty string.
C8_DefaultAppliedNonEmpty ==
    ( /\ ig_call.op = "set_limit"
      /\ NotJsonOrNoId(ig_call.headers, ig_call.id)
      /\ ig_call.headers[BUC].text # "empty" )
    => ig_call.outcome = "ok" /\ ZeroAt(ig_call.t)

\* a later call with a text that is no JSON, then get_sleep_interval() = 1
C8_Witness ==
    /\ ig_call.op = "set_limit"
    /\ ig_call.t > 0
    /\ BUC \in DOMAIN ig_call.headers
    /\ ig_call.headers[BUC] = Garbage
    /\ ig.reset_at = ig_call.t
    /\ ig_get.called
    /\ ig_get.ret = 1

-----------------------------------------------------------------------------
(* C9 *)

\* C9: of two get_sleep_interval() results of the entity tracker, each with no reset
\* pending, the one for the smaller max(call_count, total_time, total_cputime) is not
\* the larger.
C9_Monotone ==
    (ig_seen.seen /\ ig_get.called /\ ~ig_get.pending)
    => /\ ig_seen.usage <= ig_get.usage => ig_seen.ret <= ig_get.ret
       /\ ig_get.usage <= ig_seen.usage => ig_get.ret <= ig_seen.ret

-----------------------------------------------------------------------------
(* C10 *)

\* an x-app-usage object with some of the three usage fields, possibly none
IsPartialAppObj(o) ==
    /\ o.k = "dict"
    /\ Keys(o) \subseteq {"call_count", "total_cputime", "total_time"}
    /\ \A key \in Keys(o) : Item(o, key).k = "int"

OrZero(o, key) == IF key \in Keys(o) THEN Item(o, key) ELSE PyInt(0)

\* C10: after calls of the app/business tracker's set_limit that carry only
\* x-app-usage objects, the call returns normally and the 'app' record is the one
\* decoded from the last header alone, a field the header lacks being 0.
C10_AppOverwritten ==
    ( /\ rl_call.op = "set_limit"
      /\ DOMAIN rl_call.headers = {APP}
      /\ IsJson(rl_call.headers, APP)
      /\ IsPartialAppObj(rl_call.headers[APP].doc)
      /\ rl.resources.k = "dict" )
    => LET o == rl_call.headers[APP].doc
       IN  /\ rl_call.outcome = "ok"
           /\ Keys(rl.resources) = {"app"}
           /\ Item(rl.resources, "app") =
                 [call_count |-> OrZero(o, "call_count"),
                  total_cputime |-> OrZero(o, "total_cputime"),
                  total_time |-> OrZero(o, "total_time"),
                  type |-> None,
                  estimated_time_to_regain_access |-> None]

\* a header without total_time has left total_time = 0
C10_Witness ==
    /\ rl_call.op = "set_limit"
    /\ DOMAIN rl_call.headers = {APP}
    /\ rl_call.headers[APP] = Json(PyDict(<< <<"call_count", PyInt(15)>>,
                                            <<"total_cputime", PyInt(10)>> >>))
    /\ rl.resources.k = "dict"
    /\ "app" \in Keys(rl.resources)
    /\ Item(rl.resources, "app").call_count = PyInt(15)
    /\ Item(rl.resources, "app").total_time = PyInt(0)

-----------------------------------------------------------------------------
(* C11 *)

\* C11: the app/business tracker's set_limit with no usable usage header (neither
\* header, or a non-JSON x-app-usage alone) returns normally and leaves the scope
\* state as it was before the call.
C11_NothingChanged ==
    [][ (rl_call'.op = "set_limit" /\ CarriesNothing(rl_call'.headers))
        => (rl' = rl /\ rl_call'.outcome = "ok") ]_vars

\* an 'app' record of an earlier call is still there after a call with a text that is
\* no JSON
C11_Witness ==
    /\ rl_call.op = "set_limit"
    /\ rl_call.outcome = "ok"
    /\ DOMAIN rl_call.headers = {APP}
    /\ rl_call.headers[APP] = Garbage
    /\ rl.resources.k = "dict"
    /\ "app" \in Keys(rl.resources)
    /\ Item(rl.resources, "app").call_count = PyInt(95)

-----------------------------------------------------------------------------
(* C12 *)

\* the scope state holds an 'app' record
HasApp(resources) == resources.k = "dict" /\ "app" \in Keys(resources)

\* x-business-use-case-usage parses to an object with at least one business id, each
\* mapped to an array, possibly empty, of objects of usage record fields
BusinessOfRecords(headers) ==
    /\ IsJson(headers, BUC)
    /\ headers[BUC].doc.k = "dict"
    /\ Len(headers[BUC].doc.v) >= 1
    /\ \A i \in 1..Len(headers[BUC].doc.v) :
          LET items == headers[BUC].doc.v[i][2]
          IN  /\ items.k = "list"
              /\ \A j \in 1..Len(items.v) :
                    items.v[j].k = "dict" /\ Keys(items.v[j]) \subseteq RateLimitDataFields

\* C12 as stated: after a set_limit of the app/business tracker whose
\* x-business-use-case-usage header is present and parses (the call returning
\* normally), no 'app' record is present.
C12_AppDiscarded ==
    ( /\ rl_call.op = "set_limit"
      /\ rl_call.outcome = "ok"
      /\ IsJson(rl_call.headers, BUC) )
    => ~HasApp(rl.resources)

\* C12 as amended: after a set_limit that returned normally and whose
\* x-business-use-case-usage header parses to an object with at least one business
\* id, the scope state is a list and holds no 'app' record, not even the one of the
\* same call.
C12_AppDiscardedByIds ==
    ( /\ rl_call.op = "set_limit"
      /\ rl_call.outcome = "ok"
      /\ IsJson(rl_call.headers, BUC)
      /\ rl_call.headers[BUC].doc.k = "dict"
      /\ Len(rl_call.headers[BUC].doc.v) >= 1 )
    => rl.resources.k = "list" /\ ~HasApp(rl.resources)

\* a call that carried both headers has returned normally and left a list
C12_Witness ==
    /\ rl_call.op = "set_limit"
    /\ rl_call.outcome = "ok"
    /\ DOMAIN rl_call.headers = {APP, BUC}
    /\ rl_call.headers[APP] = Json(AppObj(95, 10, 10))
    /\ BusinessOfRecords(rl_call.headers)
    /\ rl.resources.k = "list"
    /\ Len(rl.resources.v) = 1

-----------------------------------------------------------------------------
(* C13 *)

\* number of array entries over the business ids pairs[i..]
RECURSIVE EntriesFrom(_, _)
EntriesFrom(pairs, i) ==
    IF i > Len(pairs) THEN 0 ELSE Len(pairs[i][2].v) + EntriesFrom(pairs, i + 1)

\* C13: after a set_limit of the app/business tracker that returned normally with an
\* x-business-use-case-usage header of business ids mapped to arrays of usage
\* objects, the scope state holds one record per array entry of every business id.
C13_OneRecordPerEntry ==
    ( /\ rl_call.op = "set_limit"
      /\ rl_call.outcome = "ok"
      /\ BUC \in DOMAIN rl_call.headers
      /\ ExpectedBusiness(rl_call.headers[BUC])
      /\ Len(rl_call.headers[BUC].doc.v) >= 1 )
    => /\ rl.resources.k = "list"
       /\ Len(rl.resources.v) = EntriesFrom(rl_call.headers[BUC].doc.v, 1)

-----------------------------------------------------------------------------
(* C14 *)

\* both headers, where present, have the documented shape
WellFormedHeaders(headers) ==
    /\ APP \in DOMAIN headers => ExpectedApp(headers[APP])
    /\ BUC \in DOMAIN headers => ExpectedBusiness(headers[BUC])

\* C14: every set_limit of the app/business tracker with well-formed headers returns
\* normally, and one carrying x-app-usage alone leaves that record as the 'app'
\* record, whatever earlier calls carried.
C14_StaysUsable ==
    ( /\ rl_call.op = "set_limit"
      /\ WellFormedHeaders(rl_call.headers) )
    => /\ rl_call.outcome = "ok"
       /\ DOMAIN rl_call.headers = {APP}
             => /\ HasApp(rl.resources)
                /\ Item(rl.resources, "app") = RateLimitData(rl_call.headers[APP].doc).value

-----------------------------------------------------------------------------
(* C16 *)

\* the clock values the result is examined at: from before construction to after every
\* reset_at the model can store
ClockValues == (0 - 1)..(MaxTime + MaxRegain + 1)

\* C16: in every state the entity tracker reaches from construction through successful
\* set_limit calls with integer fields (estimated_time_to_regain_access 0 or negative
\* included), get_sleep_interval() is at least 1 at every clock value, and a call of
\* it returns at least 1 and leaves call_count, total_cputime, total_time and
\* reset_at as they were.
C16_AtLeastOne ==
    [][ /\ \A now \in ClockValues :
              IGSleepInterval(ig, now) >= 1 /\ IGSleepInterval(ig', now) >= 1
        /\ ig_get'.called => (ig_get'.ret >= 1 /\ ig' = ig) ]_vars

\* get_sleep_interval() was called at the very second reset_at names, after a
\* set_limit whose estimated_time_to_regain_access was 0
C16_Witness ==
    /\ ig_call.op = "set_limit"
    /\ ig_call.outcome = "ok"
    /\ MapsToArray(ig_call.headers, ig_call.id)
    /\ Item(FirstOf(ig_call.headers, ig_call.id), "estimated_time_to_regain_access") = PyInt(0)
    /\ ig_get.called
    /\ ig_get.t = ig.reset_at
    /\ ig_get.ret = 1200

\* the same after a negative estimated_time_to_regain_access
C16_WitnessNegative ==
    /\ ig_call.op = "set_limit"
    /\ ig_call.outcome = "ok"
    /\ ig.reset_at = ig_call.t - 1
    /\ ig_get.called
    /\ ig_get.ret = 600

-----------------------------------------------------------------------------
(* C15 *)

\* the attributes read came from more than one observation
Mixed(seen) ==
    \E f, g \in DOMAIN seen : seen[f] # Unread /\ seen[g] # Unread /\ seen[f] # seen[g]

\* C15: a get_sleep_interval() that returns has read attributes of two different
\* observations only if the calls were not serialized; when they are serialized, the
\* four attributes are those of one observation and the result is the one computed
\* from them.
C15_OneObservation ==
    [][ (th'.r.pc = "returned" /\ th.r.pc # "returned")
        => /\ Mixed(th'.r.seen) => ~th.serialized
           /\ th.serialized
                 => /\ \A f \in FieldNames : th.obs[f] = th.obs.reset_at
                    /\ th'.r.ret = IGSleepInterval(ig, th.r.now) ]_vars

\* not serialized: a get_sleep_interval() has returned a result computed from the new
\* call_count and the old reset_at
C15_Witness ==
    /\ ~th.serialized
    /\ th.r.pc = "returned"
    /\ th.r.seen.test # Unread
    /\ th.r.seen.call_count > th.r.seen.test
    /\ th.r.ret = 600

\* serialized: a get_sleep_interval() has returned after two observations
C15_WitnessSerialized ==
    /\ th.serialized
    /\ th.r.pc = "returned"
    /\ th.r.seen.call_count = MaxCalls
    /\ th.r.ret = 600

=============================================================================
